---- MODULE Spec2Model ----
(***************************************************************************)
(* LanguageManager of the MultiReplace plugin: the merged string table,    *)
(* the three-pass placeholder renderer get(), the key builder makeKey()    *)
(* and the process-wide getLPCW() cache.                                   *)
(*                                                                         *)
(* A wide string is a sequence of one-character strings; positions are     *)
(* 0-based as in std::wstring, and npos is the "not found" position.       *)
(***************************************************************************)
EXTENDS Integers, Sequences, FiniteSets, TLC

VARIABLES
    _table,     \* LanguageManager::_table : id -> template
    cache,      \* the static map inside lpcwCache() : key -> rendering
    handles,    \* what getLPCW handed out since the last clear: [key, id, repl, content]
    renders,    \* key -> number of get() evaluations made by getLPCW since the last clear
    ret,        \* the last call of the manager and what it returned
    gpc,        \* get(): position in the function body
    gid,        \* get(): parameter id
    grepl,      \* get(): parameter repl
    result,     \* get(): local result
    org,        \* for each character of result: its 1-based place in the template,
                \* or, for an inserted character, the tag of the loop that inserted it
    p,          \* get(): scan position of the running loop
    i,          \* get(): index of the numbered pass
    thr,        \* per thread: where it stands in its call, and the call's locals
    undefined   \* a call has run into undefined behaviour (a data race on the map,
                \* a freed iterator) and the build took a faulty outcome

varsMgr == <<_table, cache, handles, renders, ret>>
varsGet == <<gpc, gid, grepl, result, org, p, i>>
varsThr == <<thr, undefined>>
vars == <<varsMgr, varsGet, varsThr>>

-----------------------------------------------------------------------------
(* Bounds of the model *)

\* longest template, counted in pieces of TemplatePieces
MaxPieces == 3
\* longest replacement list drawn freely from Values
MaxReplLen == 2
\* length of the long replacement lists (two-digit indices)
LongLen == 10
\* threads that call the manager at the same time
NumThreads == 2

-----------------------------------------------------------------------------
(* Wide strings *)

npos == -1

base == <<"$", "R", "E", "P", "L", "A", "C", "E", "_", "S", "T", "R", "I", "N", "G">>
BR == <<"<", "b", "r", "/", ">">>
CRLF == <<"\r", "\n">>
\* the character L'\x1F'
US == "\\x1F"

Digits == <<"0", "1", "2", "3", "4", "5", "6", "7", "8", "9">>

RECURSIVE to_wstring(_)
to_wstring(n) ==
    IF n < 10 THEN <<Digits[n + 1]>>
    ELSE to_wstring(n \div 10) \o <<Digits[(n % 10) + 1]>>

\* pat stands in s at 0-based position q
MatchAt(s, pat, q) ==
    /\ q >= 0
    /\ q + Len(pat) <= Len(s)
    /\ \A k \in 1..Len(pat) : s[q + k] = pat[k]

\* s.find(pat, from)
Find(s, pat, from) ==
    LET hits == {q \in from..(Len(s) - Len(pat)) : MatchAt(s, pat, q)}
    IN  IF hits = {} THEN npos
        ELSE CHOOSE q \in hits : \A r \in hits : q <= r

\* s.replace(q, n, v)
Replace(s, q, n, v) ==
    SubSeq(s, 1, q) \o v \o SubSeq(s, q + n + 1, Len(s))

-----------------------------------------------------------------------------
(* get(): the renderer *)

\* p += 2 after a line break was inserted
BrAdvance(q) == q + 2

\* the scan resumes at the match, on the inserted text
Advance_atMatch(q, val) == q

\* p += val.size() after a value was inserted
Advance(q, val) == q + Len(val)

\* the passes run from index 1 up
IndexOrder_ascending(n) == [k \in 1..n |-> k]

\* for (size_t i = repl.size(); i > 0; --i): the indices in the order of the passes
IndexOrder(n) == [k \in 1..n |-> n - k + 1]

\* the first value of i (0: the loop body never runs)
FirstIndex(n) == IF n = 0 THEN 0 ELSE IndexOrder(n)[1]

\* the value of i after the pass of idx (0: the loop ends)
NextIndex(idx, n) ==
    LET k == CHOOSE j \in 1..n : IndexOrder(n)[j] = idx
    IN  IF k = n THEN 0 ELSE IndexOrder(n)[k + 1]

\* ph = base + std::to_wstring(i)
Placeholder(idx) == base \o to_wstring(idx)

\* val = repl[i - 1] (repl is 1-based here)
NumberedValue(repl, idx) == repl[idx]

\* the bare token is always taken out
BareValue_empty(repl) == <<>>

\* val = repl.empty() ? std::wstring() : repl[0]
BareValue(repl) == IF Len(repl) = 0 THEN <<>> ELSE repl[1]

\* loop 1 from scan position q on
RECURSIVE BrLoop(_, _)
BrLoop(s, q) ==
    IF q = npos THEN s
    ELSE LET s2 == Replace(s, q, 5, CRLF)
         IN  BrLoop(s2, Find(s2, BR, BrAdvance(q)))

\* the inner loop of a numbered pass, and loop 3, from scan position q on
RECURSIVE TokenLoop(_, _, _, _)
TokenLoop(s, q, ph, val) ==
    IF q = npos THEN s
    ELSE LET s2 == Replace(s, q, Len(ph), val)
         IN  TokenLoop(s2, Find(s2, ph, Advance(q, val)), ph, val)

\* loop 2 from index idx on
RECURSIVE NumberedLoop(_, _, _)
NumberedLoop(s, repl, idx) ==
    IF idx = 0 THEN s
    ELSE LET ph == Placeholder(idx)
             val == NumberedValue(repl, idx)
         IN  NumberedLoop(TokenLoop(s, Find(s, ph, 0), ph, val), repl,
                          NextIndex(idx, Len(repl)))

\* LanguageManager::get on the table tbl
get(tbl, id, repl) ==
    IF id \notin DOMAIN tbl THEN id
    ELSE LET r1 == BrLoop(tbl[id], Find(tbl[id], BR, 0))
             r2 == NumberedLoop(r1, repl, FirstIndex(Len(repl)))
         IN  TokenLoop(r2, Find(r2, base, 0), base, BareValue(repl))

-----------------------------------------------------------------------------
(* Inputs of the renderer *)

TemplatePieces == {base, <<"1">>, <<"2">>, BR}

RECURSIVE Concat(_)
Concat(ss) == IF ss = <<>> THEN <<>> ELSE Head(ss) \o Concat(Tail(ss))

\* one or two of: a token, plain text
TokenPairs ==
    LET parts == {<<>>, Placeholder(1), Placeholder(10), Placeholder(11), base, <<"x">>}
    IN  {a \o b : a \in parts, b \in parts}

Templates ==
    {Concat(ss) : ss \in UNION {[1..n -> TemplatePieces] : n \in 0..MaxPieces}}
    \cup TokenPairs

Values == {<<>>, <<"A">>, base \o <<"1">>}

\* v1 first, v10 tenth, a filler elsewhere
LongList(v1, v10) ==
    [k \in 1..LongLen |-> IF k = 1 THEN v1 ELSE IF k = 10 THEN v10 ELSE <<"f">>]

ReplLists ==
    UNION {[1..n -> Values] : n \in 0..MaxReplLen}
    \cup {<<<<"A">>, <<"B">>>>, <<base>>, <<<<"A">>, base>>}
    \cup {LongList(v1, v10) : v1 \in {<<"A">>}, v10 \in {<<"B">>, <<>>, base}}

\* the id under which the template is stored
kid == <<"k">>

-----------------------------------------------------------------------------
(* get() step by step *)

NoCall == [op |-> "none"]

Threads == 1..NumThreads

\* a thread outside any call
IdleThread == [pc |-> "idle"]

ThrIdle ==
    /\ thr = [t \in Threads |-> IdleThread]
    /\ undefined = FALSE

MgrIdle ==
    /\ cache = <<>>
    /\ handles = {}
    /\ renders = <<>>
    /\ ret = NoCall

InitGet ==
    /\ \E t \in Templates :
        /\ _table = [x \in {kid} |-> t]
        /\ gid \in {kid, t}
    /\ grepl \in ReplLists
    /\ gpc = "lookup"
    /\ result = <<>>
    /\ org = <<>>
    /\ p = npos
    /\ i = 0
    /\ MgrIdle
    /\ ThrIdle

\* tags of the loops: loop 1, loop 3, the inner loop of the numbered pass idx
BrTag == 0 - 1
BareTag == 0 - 2
NumTag(idx) == 0 - (2 + idx)

Inserted(val, tag) == [k \in 1..Len(val) |-> tag]

\* it == _table.end(): return id
GetMissing ==
    /\ gpc = "lookup"
    /\ gid \notin DOMAIN _table
    /\ result' = gid
    /\ gpc' = "done"
    /\ UNCHANGED <<gid, grepl, org, p, i, varsMgr, varsThr>>

\* result = it->second; first find of loop 1
GetFound ==
    /\ gpc = "lookup"
    /\ gid \in DOMAIN _table
    /\ result' = _table[gid]
    /\ org' = [k \in 1..Len(_table[gid]) |-> k]
    /\ p' = Find(_table[gid], BR, 0)
    /\ gpc' = "br"
    /\ UNCHANGED <<gid, grepl, i, varsMgr, varsThr>>

\* body of loop 1 and the next find
BrStep ==
    /\ gpc = "br"
    /\ p # npos
    /\ result' = Replace(result, p, 5, CRLF)
    /\ org' = Replace(org, p, 5, Inserted(CRLF, BrTag))
    /\ p' = Find(result', BR, BrAdvance(p))
    /\ UNCHANGED <<gpc, gid, grepl, i, varsMgr, varsThr>>

\* loop 1 ends; i = repl.size()
BrExit ==
    /\ gpc = "br"
    /\ p = npos
    /\ i' = FirstIndex(Len(grepl))
    /\ gpc' = "numHead"
    /\ UNCHANGED <<gid, grepl, result, org, p, varsMgr, varsThr>>

\* i > 0: ph, val and the first find of the inner loop
NumEnter ==
    /\ gpc = "numHead"
    /\ i > 0
    /\ p' = Find(result, Placeholder(i), 0)
    /\ gpc' = "num"
    /\ UNCHANGED <<gid, grepl, result, org, i, varsMgr, varsThr>>

\* body of the inner loop and the next find
NumStep ==
    /\ gpc = "num"
    /\ p # npos
    /\ LET ph == Placeholder(i)
           val == NumberedValue(grepl, i)
       IN  /\ result' = Replace(result, p, Len(ph), val)
           /\ org' = Replace(org, p, Len(ph), Inserted(val, NumTag(i)))
           /\ p' = Find(result', ph, Advance(p, val))
    /\ UNCHANGED <<gpc, gid, grepl, i, varsMgr, varsThr>>

\* the inner loop ends; --i
NumNext ==
    /\ gpc = "num"
    /\ p = npos
    /\ i' = NextIndex(i, Len(grepl))
    /\ gpc' = "numHead"
    /\ UNCHANGED <<gid, grepl, result, org, p, varsMgr, varsThr>>

\* i == 0: loop 2 ends; first find of loop 3
NumExit ==
    /\ gpc = "numHead"
    /\ i = 0
    /\ p' = Find(result, base, 0)
    /\ gpc' = "bare"
    /\ UNCHANGED <<gid, grepl, result, org, i, varsMgr, varsThr>>

\* body of loop 3 and the next find
BareStep ==
    /\ gpc = "bare"
    /\ p # npos
    /\ LET val == BareValue(grepl)
       IN  /\ result' = Replace(result, p, Len(base), val)
           /\ org' = Replace(org, p, Len(base), Inserted(val, BareTag))
           /\ p' = Find(result', base, Advance(p, val))
    /\ UNCHANGED <<gpc, gid, grepl, i, varsMgr, varsThr>>

\* loop 3 ends; return result
BareExit ==
    /\ gpc = "bare"
    /\ p = npos
    /\ gpc' = "done"
    /\ UNCHANGED <<gid, grepl, result, org, p, i, varsMgr, varsThr>>

NextGet ==
    \/ GetMissing
    \/ GetFound
    \/ BrStep
    \/ BrExit
    \/ NumEnter
    \/ NumStep
    \/ NumNext
    \/ NumExit
    \/ BareStep
    \/ BareExit

\* get() is an ordinary call: once entered it runs on
SpecGet == InitGet /\ [][NextGet]_vars /\ WF_vars(NextGet)

-----------------------------------------------------------------------------
(* The manager: tables, loadFromIni, the getLPCW cache *)

ida == <<"a">>
idb == <<"b">>
idc == <<"c">>

\* the built-in English table (language_mapping.h)
languageMap ==
    (ida :> (<<"D">> \o base)) @@ (idb :> <<"d">>)

\* the ini files on disk: whether IniFileCache::load succeeds, and what raw() then
\* holds (language code -> id -> string)
IniFiles ==
    [good |->
        [ok |-> TRUE,
         data |-> [french |-> (ida :> (<<"F">> \o base)) @@ (idc :> <<"c", "F">>),
                   german |-> (idb :> <<"G">>)]],
     alt |->
        [ok |-> TRUE,
         data |-> [french |-> (idb :> <<"f">>)]],
     missing |->
        [ok |-> FALSE,
         data |-> <<>>]]

LanguageCodes == {"english", "french", "german"}

\* _cache.load(iniFile)
IniLoad(iniFile) == IniFiles[iniFile].ok

\* _cache.raw()
IniRaw(iniFile) == IniFiles[iniFile].data

\* makeKey: id, delimiter, then each value followed by the delimiter
makeKey(id, repl) ==
    (id \o <<US>>) \o Concat([k \in 1..Len(repl) |-> repl[k] \o <<US>>])

\* the default's value wins over the override's
Overlay_defaultWins(tbl, kvs) ==
    [k \in DOMAIN tbl \cup DOMAIN kvs |-> IF k \in DOMAIN tbl THEN tbl[k] ELSE kvs[k]]

\* for (const auto& kv : it->second) _table[kv.first] = kv.second;
Overlay(tbl, kvs) ==
    [k \in DOMAIN tbl \cup DOMAIN kvs |-> IF k \in DOMAIN kvs THEN kvs[k] ELSE tbl[k]]

\* the language's section when data.find(languageCode) finds one
Section(data, languageCode) ==
    IF languageCode \in DOMAIN data THEN data[languageCode] ELSE <<>>

\* every call misses
CacheMiss_always(c, key) == TRUE

\* it == cache.end()
CacheMiss(c, key) == key \notin DOMAIN c

\* cache.emplace(key, value): an existing entry stays as it is (and where it is:
\* an unordered_map keeps its elements in place when it grows)
Emplace(c, key, value) ==
    IF key \in DOMAIN c THEN c ELSE c @@ (key :> value)

\* the number of get() evaluations recorded for key
Renders(r, key) == IF key \in DOMAIN r THEN r[key] ELSE 0

InitMgr ==
    /\ _table = languageMap
    /\ cache = <<>>
    /\ handles = {}
    /\ renders = <<>>
    /\ ret = NoCall

GetIdle ==
    /\ gpc = "idle"
    /\ gid = <<>>
    /\ grepl = <<>>
    /\ result = <<>>
    /\ org = <<>>
    /\ p = npos
    /\ i = 0

\* LanguageManager::loadFromIni
loadFromIni(iniFile, languageCode) ==
    /\ IF ~IniLoad(iniFile)
       THEN /\ _table' = languageMap
            /\ UNCHANGED <<cache, handles, renders>>
       ELSE /\ _table' = Overlay(languageMap, Section(IniRaw(iniFile), languageCode))
            /\ cache' = <<>>
            /\ handles' = {}
            /\ renders' = <<>>
    /\ ret' = [op |-> "loadFromIni", iniFile |-> iniFile,
               languageCode |-> languageCode, val |-> IniLoad(iniFile)]
    /\ UNCHANGED <<varsGet, varsThr>>

\* LanguageManager::invalidateCaches
invalidateCaches ==
    /\ cache' = <<>>
    /\ handles' = {}
    /\ renders' = <<>>
    /\ ret' = [op |-> "invalidateCaches"]
    /\ UNCHANGED <<_table, varsGet, varsThr>>

\* LanguageManager::get, called from outside
Get(id, repl) ==
    /\ ret' = [op |-> "get", id |-> id, repl |-> repl, val |-> get(_table, id, repl)]
    /\ UNCHANGED <<_table, cache, handles, renders, varsGet, varsThr>>

\* LanguageManager::getLPCW
getLPCW(id, repl) ==
    LET key == makeKey(id, repl)
        miss == CacheMiss(cache, key)
    IN  /\ cache' = IF miss THEN Emplace(cache, key, get(_table, id, repl)) ELSE cache
        /\ renders' = IF miss
                      THEN [k \in DOMAIN renders \cup {key} |->
                                Renders(renders, k) + (IF k = key THEN 1 ELSE 0)]
                      ELSE renders
        /\ handles' = handles \cup
                {[key |-> key, id |-> id, repl |-> repl, content |-> cache'[key]]}
        /\ ret' = [op |-> "getLPCW", id |-> id, repl |-> repl, val |-> cache'[key]]
        /\ UNCHANGED <<_table, varsGet, varsThr>>

\* the calls made on the manager
Args == [id : {ida, idc}, repl : {<<>>, <<<<"x">>>>}]

Init == InitMgr /\ GetIdle /\ ThrIdle

Next ==
    \/ \E f \in DOMAIN IniFiles, l \in LanguageCodes : loadFromIni(f, l)
    \/ invalidateCaches
    \/ \E a \in Args : Get(a.id, a.repl)
    \/ \E a \in Args : getLPCW(a.id, a.repl)

Spec == Init /\ [][Next]_vars

\* calls whose strings hold the delimiter character as well
KeyArgs ==
    {[id |-> ida, repl |-> <<<<"x">>>>],
     [id |-> ida \o <<US, "x">>, repl |-> <<>>],
     [id |-> ida, repl |-> <<<<"x">>, <<"y">>>>],
     [id |-> ida, repl |-> <<<<"y">>, <<"x">>>>],
     [id |-> ida, repl |-> <<<<"x", US, "y">>>>]}

NextKey ==
    \/ \E f \in DOMAIN IniFiles, l \in LanguageCodes : loadFromIni(f, l)
    \/ invalidateCaches
    \/ \E a \in KeyArgs : Get(a.id, a.repl)
    \/ \E a \in KeyArgs : getLPCW(a.id, a.repl)

\* the manager called with arbitrary wide strings
SpecKey == Init /\ [][NextKey]_vars

-----------------------------------------------------------------------------
(* Properties of the manager *)

\* C1: what a getLPCW call returns equals what get returns on the merged table of
\* that moment, whatever loads and calls came before
C1_CacheFollowsTable ==
    ret.op = "getLPCW" => ret.val = get(_table, ret.id, ret.repl)

\* C3: the handles given out since the last clear share a cache entry exactly when
\* their calls had the same id and the same replacement list
C3_KeySharedOnlyByEqualCalls ==
    \A g \in handles : \A h \in handles :
        (g.key = h.key) <=> (g.id = h.id /\ g.repl = h.repl)

\* the override table the last loadFromIni call names
LoadedSection ==
    IF IniFiles[ret.iniFile].ok
    THEN Section(IniFiles[ret.iniFile].data, ret.languageCode)
    ELSE <<>>

\* C4: after loadFromIni(file, L) the merged table holds, for each key, L's value in
\* the file if there is one and the default's otherwise (the default table when the
\* call returns false): every default key is there, nothing else survives
C4_MergedTableFromThisLoad ==
    ret.op = "loadFromIni" =>
        /\ ret.val = FALSE => _table = languageMap
        /\ \A k \in DOMAIN languageMap :
            /\ k \in DOMAIN _table
            /\ _table[k] = IF ret.val /\ k \in DOMAIN LoadedSection
                          THEN LoadedSection[k] ELSE languageMap[k]
        /\ \A k \in DOMAIN _table \ DOMAIN languageMap :
            ret.val /\ k \in DOMAIN LoadedSection /\ _table[k] = LoadedSection[k]

\* german was loaded from the file: b is overridden, a is the default's
C4_Witness ==
    /\ ret.op = "loadFromIni"
    /\ ret.val = TRUE
    /\ ret.iniFile = "good"
    /\ ret.languageCode = "german"
    /\ _table[idb] = <<"G">>
    /\ _table[ida] = languageMap[ida]

\* C5: for an id absent from the merged table get returns the id itself, and
\* getLPCW returns the same content
C5_MissingIdReturnsId ==
    (ret.op \in {"get", "getLPCW"} /\ ret.id \notin DOMAIN _table) => ret.val = ret.id

\* a getLPCW call leaves every entry as it is and adds at most the entry of its key
LpcwFrame ==
    ret'.op = "getLPCW" =>
        /\ \A k \in DOMAIN cache : k \in DOMAIN cache' /\ cache'[k] = cache[k]
        /\ DOMAIN cache' \subseteq DOMAIN cache \cup {makeKey(ret'.id, ret'.repl)}
        /\ makeKey(ret'.id, ret'.repl) \in DOMAIN cache'

\* get() ran once for each entry, and every handle given out since the last clear
\* still points at the content it had
HandlesStable ==
    /\ DOMAIN renders = DOMAIN cache
    /\ \A k \in DOMAIN cache : renders[k] = 1
    /\ \A h \in handles : h.key \in DOMAIN cache /\ cache[h.key] = h.content

\* C8: between two clears getLPCW only ever adds the entry of its own key, get runs
\* for the first call of a key alone, and the handles given out keep their content
C8_CacheOnlyGrows ==
    /\ []HandlesStable
    /\ [][LpcwFrame]_vars

\* two keys are cached, one of them asked for twice, after a failed load
C8_Witness ==
    /\ Cardinality(DOMAIN cache) >= 2
    /\ Cardinality(handles) >= 3
    /\ _table = languageMap
    /\ \E h \in handles : h.content # get(_table, h.id, h.repl)

-----------------------------------------------------------------------------
(* The manager called from several threads: each call runs step by step, and   *)
(* a map operation (find, emplace, clear) and get()'s read of _table take time *)

\* the calls the threads make
ConcArgs == {[id |-> ida, repl |-> <<>>]}
ConcLoads ==
    {[iniFile |-> "good", languageCode |-> "french"],
     [iniFile |-> "good", languageCode |-> "german"],
     [iniFile |-> "missing", languageCode |-> "french"]}

\* thread t moves to the record r
Goto(t, r) == thr' = [thr EXCEPT ![t] = r]

\* thread t moves to pc, its locals kept
Step(t, pc) == Goto(t, [thr[t] EXCEPT !.pc = pc])

\* another thread than t stands at one of pcs
OtherAt(t, pcs) == \E u \in Threads \ {t} : thr[u].pc \in pcs

\* an access that conflicts with another thread's is undefined behaviour: the build
\* may go on as if the accesses had been ordered, or fail
Racing(conflict) ==
    IF conflict THEN undefined' \in BOOLEAN ELSE UNCHANGED undefined

\* getLPCW is entered: key = makeKey(id, repl)
T_CallLpcw(t, a) ==
    /\ ~undefined
    /\ thr[t].pc = "idle"
    /\ Goto(t, [pc |-> "find", id |-> a.id, repl |-> a.repl,
                key |-> makeKey(a.id, a.repl), val |-> <<>>,
                stale |-> FALSE, freed |-> FALSE])
    /\ UNCHANGED <<undefined, varsMgr, varsGet>>

\* cache.find(key) begins
T_FindBegin(t) ==
    /\ ~undefined
    /\ thr[t].pc = "find"
    /\ Step(t, "finding")
    /\ Racing(OtherAt(t, {"emplacing", "clearing"}))
    /\ UNCHANGED <<varsMgr, varsGet>>

\* cache.find(key) ends; it == cache.end() ?
T_FindEnd(t) ==
    /\ ~undefined
    /\ thr[t].pc = "finding"
    /\ Step(t, IF CacheMiss(cache, thr[t].key) THEN "get" ELSE "ret")
    /\ UNCHANGED <<undefined, varsMgr, varsGet>>

\* get(id, repl) begins to read _table
T_GetBegin(t) ==
    /\ ~undefined
    /\ thr[t].pc = "get"
    /\ Step(t, "rendering")
    /\ UNCHANGED <<undefined, varsMgr, varsGet>>

\* get(id, repl) returns the rendering
T_GetEnd(t) ==
    /\ ~undefined
    /\ thr[t].pc = "rendering"
    /\ Goto(t, [thr[t] EXCEPT !.pc = "emplace",
                              !.val = get(_table, thr[t].id, thr[t].repl)])
    /\ UNCHANGED <<undefined, varsMgr, varsGet>>

\* cache.emplace(key, rendering) begins
T_EmplaceBegin(t) ==
    /\ ~undefined
    /\ thr[t].pc = "emplace"
    /\ Step(t, "emplacing")
    /\ Racing(OtherAt(t, {"finding", "emplacing", "clearing"}))
    /\ UNCHANGED <<varsMgr, varsGet>>

\* cache.emplace(key, rendering) ends
T_EmplaceEnd(t) ==
    /\ ~undefined
    /\ thr[t].pc = "emplacing"
    /\ cache' = Emplace(cache, thr[t].key, thr[t].val)
    /\ Step(t, "ret")
    /\ UNCHANGED <<undefined, _table, handles, renders, ret, varsGet>>

\* return it->second.c_str(): through a freed iterator the read is undefined
T_Return(t) ==
    /\ ~undefined
    /\ thr[t].pc = "ret"
    /\ Goto(t, IdleThread)
    /\ Racing(thr[t].freed)
    /\ UNCHANGED <<varsMgr, varsGet>>

\* loadFromIni is entered: _table = languageMap
T_CallLoad(t, l) ==
    /\ ~undefined
    /\ thr[t].pc = "idle"
    /\ _table' = languageMap
    /\ Goto(t, [pc |-> "iniLoad", iniFile |-> l.iniFile,
                languageCode |-> l.languageCode])
    /\ Racing(OtherAt(t, {"rendering"}))
    /\ UNCHANGED <<cache, handles, renders, ret, varsGet>>

\* _cache.load(iniFile) fails: return false
T_LoadFail(t) ==
    /\ ~undefined
    /\ thr[t].pc = "iniLoad"
    /\ ~IniLoad(thr[t].iniFile)
    /\ Goto(t, IdleThread)
    /\ UNCHANGED <<undefined, varsMgr, varsGet>>

\* _cache.load(iniFile) succeeds: the language's entries go into _table
T_LoadMerge(t) ==
    /\ ~undefined
    /\ thr[t].pc = "iniLoad"
    /\ IniLoad(thr[t].iniFile)
    /\ _table' = Overlay(_table, Section(IniRaw(thr[t].iniFile), thr[t].languageCode))
    /\ Step(t, "clear")
    /\ Racing(OtherAt(t, {"rendering"}))
    /\ UNCHANGED <<cache, handles, renders, ret, varsGet>>

\* invalidateCaches is entered from outside
T_CallInvalidate(t) ==
    /\ ~undefined
    /\ thr[t].pc = "idle"
    /\ Goto(t, [pc |-> "clear"])
    /\ UNCHANGED <<undefined, varsMgr, varsGet>>

\* lpcwCache().clear() begins
T_ClearBegin(t) ==
    /\ ~undefined
    /\ thr[t].pc = "clear"
    /\ Step(t, "clearing")
    /\ Racing(OtherAt(t, {"finding", "emplacing", "clearing"}))
    /\ UNCHANGED <<varsMgr, varsGet>>

\* lpcwCache().clear() ends, and the call with it: what another thread has rendered
\* and not yet stored is from before this clear, and an iterator it holds is freed
T_ClearEnd(t) ==
    /\ ~undefined
    /\ thr[t].pc = "clearing"
    /\ cache' = <<>>
    /\ thr' = [u \in Threads |->
                IF u = t THEN IdleThread
                ELSE IF thr[u].pc \in {"emplace", "emplacing"}
                     THEN [thr[u] EXCEPT !.stale = TRUE]
                ELSE IF thr[u].pc = "ret" THEN [thr[u] EXCEPT !.freed = TRUE]
                ELSE thr[u]]
    /\ UNCHANGED <<undefined, _table, handles, renders, ret, varsGet>>

NextConc ==
    \E t \in Threads :
        \/ \E a \in ConcArgs : T_CallLpcw(t, a)
        \/ T_FindBegin(t)
        \/ T_FindEnd(t)
        \/ T_GetBegin(t)
        \/ T_GetEnd(t)
        \/ T_EmplaceBegin(t)
        \/ T_EmplaceEnd(t)
        \/ T_Return(t)
        \/ \E l \in ConcLoads : T_CallLoad(t, l)
        \/ T_LoadFail(t)
        \/ T_LoadMerge(t)
        \/ T_CallInvalidate(t)
        \/ T_ClearBegin(t)
        \/ T_ClearEnd(t)

SpecConc == Init /\ [][NextConc]_vars

\* no find or emplace of one thread overlaps an emplace or a clear of another
NoMapOverlap ==
    \A t \in Threads :
        thr[t].pc \in {"finding", "emplacing"}
            => ~OtherAt(t, {"emplacing", "clearing"})

\* nothing rendered before a clear is on its way into the cache after it
NoStaleInsert ==
    \A t \in Threads : thr[t].pc = "emplacing" => ~thr[t].stale

\* C9: with several threads in getLPCW and loadFromIni/invalidateCaches, the map
\* operations of different threads never overlap (they are under one lock), and no
\* rendering made before a clear is inserted after it
C9_MapAccessIsSerialized ==
    /\ NoMapOverlap
    /\ NoStaleInsert
    /\ ~undefined

-----------------------------------------------------------------------------
(* Properties of get() *)

\* largest token index looked for in a template
MaxToken == 12

\* the stored template of the running get()
Tpl == _table[kid]

\* get() has returned the rendering of the stored template
Rendered == gpc = "done" /\ gid = kid

\* the n template characters from 0-based place q on stand, in order and side by
\* side, somewhere in result
StandsIn(q, n) ==
    \E r \in 0..(Len(result) - n) : \A j \in 1..n : org[r + j] = q + j

\* none of those template characters is left in result
GoneFrom(q, n) ==
    \A r \in 1..Len(result) : org[r] \notin (q + 1)..(q + n)

\* the places of the token of index k in the template
TokenPlaces(k) ==
    {q \in 0..Len(Tpl) : MatchAt(Tpl, Placeholder(k), q)}

\* C2: a numbered token whose index is beyond the replacement list is left
\* verbatim in the output of get
C2_UnresolvedTokenVerbatim ==
    Rendered =>
        \A k \in (Len(grepl) + 1)..MaxToken : \A q \in TokenPlaces(k) :
            StandsIn(q, Len(Placeholder(k)))

\* C7 as stated: get on "$REPLACE_STRING1$REPLACE_STRING" with ["A","B"] returns "BA"
C7_ReturnsBA ==
    (Rendered /\ Tpl = Placeholder(1) \o base /\ grepl = <<<<"A">>, <<"B">>>>)
        => result = <<"B", "A">>

\* C7 amended: the numbered token 1 and the bare token both take repl[0], so get on
\* "$REPLACE_STRING1$REPLACE_STRING" with ["A","B"] returns "AA"
C7_ReturnsAA ==
    (Rendered /\ Tpl = Placeholder(1) \o base /\ grepl = <<<<"A">>, <<"B">>>>)
        => result = <<"A", "A">>

C7_Witness ==
    /\ Rendered
    /\ Tpl = Placeholder(1) \o base
    /\ grepl = <<<<"A">>, <<"B">>>>
    /\ result = <<"A", "A">>

\* the numbered pass of index k is over
PassOver(k) ==
    \/ gpc \in {"bare", "done"}
    \/ gpc \in {"numHead", "num"} /\ i < k

\* get() is past the lookup and runs on the stored template
Rendering == gid = kid /\ gpc # "lookup"

\* every multi-digit token of the template is taken out as a whole, and by the end of
\* its own pass: its characters are never split between result and a replacement
MultiDigitWhole ==
    Rendering =>
        \A k \in 10..Len(grepl) : \A q \in TokenPlaces(k) :
            LET n == Len(Placeholder(k))
            IN  /\ StandsIn(q, n) \/ GoneFrom(q, n)
                /\ PassOver(k) => GoneFrom(q, n)

AtMatch == gpc \in {"br", "num", "bare"} /\ p # npos

\* the token looked for, the text put in its place and the tag of the running loop
LoopToken == IF gpc = "br" THEN BR ELSE IF gpc = "num" THEN Placeholder(i) ELSE base
LoopValue ==
    IF gpc = "br" THEN CRLF
    ELSE IF gpc = "num" THEN NumberedValue(grepl, i) ELSE BareValue(grepl)
LoopTag == IF gpc = "br" THEN BrTag ELSE IF gpc = "num" THEN NumTag(i) ELSE BareTag

\* what is left to scan
Remaining == IF p = npos THEN 0 ELSE Len(result) - p

\* no match of a loop takes in a character that the same loop inserted
NoRematch ==
    AtMatch => \A j \in 1..Len(LoopToken) : org[p + j] # LoopTag

\* a replacement puts the value at the match, resumes the scan past it and
\* shortens what is left to scan
ScanResumesPast ==
    AtMatch =>
        /\ SubSeq(result', 1, p + Len(LoopValue)) = SubSeq(result, 1, p) \o LoopValue
        /\ p' = npos \/ p' >= p + Len(LoopValue)
        /\ Remaining' < Remaining

\* C10: get terminates, whatever the values hold: each scan loop resumes past the
\* inserted text, never matches it again and makes finitely many replacements
C10_GetTerminates ==
    /\ []NoRematch
    /\ [][ScanResumesPast]_vars
    /\ <>(gpc = "done")

\* the value "$REPLACE_STRING1" went in for the token 1 and then for the bare tokens,
\* the one it brought along included, and get() returned
C10_Witness ==
    /\ Rendered
    /\ Tpl = Placeholder(1) \o base
    /\ grepl = <<Placeholder(1)>>
    /\ result = Placeholder(11) \o Placeholder(1)

====
